---- MODULE Spec2Model ----
(***************************************************************************)
(* The three client scripts of the repository                              *)
(*   examples/chatbot-demo.py, test_chatbot.py, test_enhanced_timestamps.py*)
(* as one state machine.  One run executes one script against a server     *)
(* whose answers are the nondeterministic input of every HTTP request.     *)
(* Response texts are sequences of one-character strings, a JSON object is *)
(* a record (DOMAIN = its keys), a JSON array is a sequence.               *)
(***************************************************************************)
EXTENDS Integers, Sequences, FiniteSets, TLC

VARIABLES
    script,       \* which script this run executes
    pc,           \* position in the script
    unreachable,  \* the server refuses every connection during this run
    done,         \* demo: number of call sites of run_full_demo completed
    sent,         \* every HTTP request issued so far, in order
    health,       \* demo: the outcome of GET /health
    last,         \* the outcome of the most recent POST /jsonrpc
    lines,        \* console lines printed by the most recent step
    exc,          \* the exception that left the script, NoExc if none
    retval        \* test_enhanced_timestamps: the function's return value

vars == <<script, pc, unreachable, done, sent, health, last, lines, exc, retval>>

----------------------------------------------------------------------------
(* Bounds of the model *)

\* response lengths are taken within MaxPad of 0 and of each threshold
MaxPad == 1

----------------------------------------------------------------------------
(* Text *)

Min(a, b) == IF a < b THEN a ELSE b

\* response[:n]
Slice(text, n) == SubSeq(text, 1, Min(n, Len(text)))

Ellipsis == <<".", ".", ".">>

\* needle in text
Contains(text, needle) ==
    \E i \in 1..(Len(text) - Len(needle) + 1) :
        SubSeq(text, i, i + Len(needle) - 1) = needle

Created == <<"C", "r", "e", "a", "t", "e", "d", ":">>
Updated == <<"U", "p", "d", "a", "t", "e", "d", ":">>
Collected == <<"C", "o", "l", "l", "e", "c", "t", "e", "d", ":">>

\* "Created:" in t or "Updated:" in t or "Collected:" in t
HasTimestampFields(text) ==
    Contains(text, Created) \/ Contains(text, Updated) \/ Contains(text, Collected)

DemoTruncateAt == 200
ChatbotTruncateAt == 200
TimestampTruncateAt == 500

\* demo_intent_recognition: if len(response) > 200: response = response[:200] + "..."
DemoTruncate(text) ==
    IF Len(text) > DemoTruncateAt THEN Slice(text, DemoTruncateAt) \o Ellipsis ELSE text

\* test_chatbot: text[:200] + "..."
ChatbotPreview(text) == Slice(text, ChatbotTruncateAt) \o Ellipsis

\* test_enhanced_timestamps: response_text[:500] + "..."
TimestampPreview(text) == Slice(text, TimestampTruncateAt) \o Ellipsis

----------------------------------------------------------------------------
(* The server's answers *)

Filler(n) == [i \in 1..n |-> <<"a", "b", "c">>[(i % 3) + 1]]

TextLens ==
    (0..MaxPad)
    \cup { t + d : t \in {DemoTruncateAt, TimestampTruncateAt}, d \in (0 - MaxPad)..MaxPad }

Markers == {<<>>, Created, Updated, Collected}

\* a text of every length, with each marker in front or "Created:" at its end
Texts ==
    { IF Len(m) <= n THEN m \o Filler(n - Len(m)) ELSE Filler(n) : m \in Markers, n \in TextLens }
    \cup
    { IF Len(Created) <= n THEN Filler(n - Len(Created)) \o Created ELSE Filler(n) : n \in TextLens }

ResultBody(t) == [result |-> [content |-> << [type |-> "text", text |-> t] >>]]

WellFormedBodies ==
    { ResultBody(t) : t \in Texts }
    \cup { [result |-> [content |-> << [type |-> "text", text |-> <<"o", "k">>] >>],
            error |-> "boom"] }

MalformedBodies ==
    { [result |-> [isError |-> TRUE]],
      [result |-> [content |-> <<>>]],
      [result |-> [content |-> << [type |-> "text"] >>]] }

ErrorValues == {"boom", "Method not found"}

ErrorBodies == { [jsonrpc |-> "2.0", error |-> e] : e \in ErrorValues }

BareBodies == { [jsonrpc |-> "2.0"] }

JsonBodies == WellFormedBodies \cup MalformedBodies \cup ErrorBodies \cup BareBodies

Statuses == {200, 204, 304, 404, 500}

ConnectionErrorExc == [type |-> "ConnectionError", msg |-> "Connection refused"]
TimeoutExc == [type |-> "ConnectTimeout", msg |-> "Connection timed out"]
Faults == {ConnectionErrorExc, TimeoutExc}

NoResponse == [kind |-> "none"]

FaultOutcomes == { [kind |-> "fault", exc |-> e] : e \in Faults }

\* the bodies sent with a status other than 200: one or two of each shape
OtherBodies ==
    { ResultBody(Filler(MaxPad)), ResultBody(Created \o Filler(DemoTruncateAt)) }
    \cup MalformedBodies \cup ErrorBodies \cup BareBodies

HttpOutcomes ==
    { [kind |-> "http", status |-> s, isJson |-> TRUE, body |-> b] :
        s \in {200}, b \in JsonBodies }
    \cup
    { [kind |-> "http", status |-> s, isJson |-> TRUE, body |-> b] :
        s \in Statuses \ {200}, b \in OtherBodies }
    \cup
    { [kind |-> "http", status |-> s, isJson |-> FALSE, body |-> [raw |-> "<html>"]] :
        s \in Statuses }

\* what the server can answer to one POST /jsonrpc in this run
Outcomes == IF unreachable THEN FaultOutcomes ELSE FaultOutcomes \cup HttpOutcomes

\* what the server can answer to GET /health in this run (the body is never read)
HealthOutcomes ==
    IF unreachable THEN FaultOutcomes
    ELSE FaultOutcomes \cup { [kind |-> "http", status |-> s] : s \in Statuses }

----------------------------------------------------------------------------
(* Exceptions and the except clauses *)

NoExc == [type |-> "none", msg |-> ""]
HTTPErrorExc(status) ==
    [type |-> "HTTPError",
     msg |-> ToString(status) \o (IF status < 500 THEN " Client Error" ELSE " Server Error")]
JSONDecodeErrorExc == [type |-> "JSONDecodeError", msg |-> "Expecting value"]
KeyErrorExc(key) == [type |-> "KeyError", msg |-> key]
IndexErrorExc == [type |-> "IndexError", msg |-> "list index out of range"]

\* the subclasses of requests.exceptions.RequestException (the error raised by
\* response.json() is one of them since requests 2.27)
IsRequestException(e) ==
    e.type \in {"ConnectionError", "ConnectTimeout", "HTTPError", "JSONDecodeError"}

\* fault variant: except requests.exceptions.ConnectionError
CallToolCatches_ConnectionOnly(e) == e.type = "ConnectionError"

\* call_tool: except requests.exceptions.RequestException as e
CallToolCatches(e) == IsRequestException(e)

\* fault variant: except requests.exceptions.ConnectionError
HealthCatches_ConnectionOnly(e) == e.type = "ConnectionError"

\* run_full_demo: except requests.exceptions.RequestException
HealthCatches(e) == IsRequestException(e)

\* fault variant: except requests.exceptions.RequestException
ChatbotCatches_RequestsOnly(e) == IsRequestException(e)

\* test_chatbot: except Exception as e
ChatbotCatches(e) == e.type # "none"

\* test_enhanced_timestamps: except Exception as e
TimestampCatches(e) == e.type # "none"

\* fault variant: raise_for_status() left out
RaisesForStatus_Never(status) == FALSE

\* response.raise_for_status() raises HTTPError
RaisesForStatus(status) == status >= 400 /\ status < 600

\* fault variant: if response.status_code < 400
HealthOk_NotAnError(status) == status < 400

\* run_full_demo: if response.status_code == 200
HealthOk(status) == status = 200

----------------------------------------------------------------------------
(* Requests *)

base_url == "http://localhost:8084"

\* fault variant: the id counts the requests made so far
Payload_CountingId(tool_name, arguments) ==
    [jsonrpc |-> "2.0",
     id |-> Len(sent) + 1,
     method |-> "tools/call",
     params |-> [name |-> tool_name, arguments |-> arguments]]

\* call_tool's payload
Payload(tool_name, arguments) ==
    [jsonrpc |-> "2.0",
     id |-> 1,
     method |-> "tools/call",
     params |-> [name |-> tool_name, arguments |-> arguments]]

QueryArgs(query, timeRange, limit) ==
    [query |-> query, timeRange |-> timeRange, limit |-> limit]

test_queries ==
    << "Show me issues in the last 3 hours",
       "What critical alerts do we have?",
       "Any pod crashes recently?",
       "Tell me about service issues",
       "What resource problems are there?",
       "Show me trends in the past week",
       "Generate a fix for the crashing pod" >>

\* the call sites of run_full_demo, in program order
CallSites ==
    << [style |-> "query", tool |-> "chatbot_query",
        args |-> QueryArgs("What's happening with our services?", "3h", 5)],
       [style |-> "query", tool |-> "chatbot_query",
        args |-> QueryArgs("Tell me about pod crashes", "1d", 10)],
       [style |-> "query", tool |-> "chatbot_query",
        args |-> QueryArgs("What critical alerts do we have?", "6h", 3)],
       [style |-> "remediation", tool |-> "get_remediation",
        args |-> [alertId |-> "test-crashing-pod-default-1722943743",
                  service |-> "test-crashing-pod",
                  namespace |-> "default"]] >>
    \o [i \in 1..Len(test_queries) |->
            [style |-> "intent", tool |-> "chatbot_query",
             args |-> QueryArgs(test_queries[i], "3h", 3)]]

HealthRequest == [verb |-> "GET", url |-> base_url \o "/health"]

ChatbotRequest ==
    [verb |-> "POST", url |-> "http://localhost:8084/jsonrpc", timeout |-> 30,
     json |-> [jsonrpc |-> "2.0", id |-> 1, method |-> "tools/call",
               params |-> [name |-> "chatbot_query",
                           arguments |-> QueryArgs("What's happening with our services?",
                                                   "3h", 3)]]]

TimestampRequest ==
    [verb |-> "POST", url |-> "http://localhost:8084/jsonrpc", timeout |-> 30,
     json |-> [jsonrpc |-> "2.0", id |-> 1, method |-> "tools/call",
               params |-> [name |-> "chatbot_query",
                           arguments |-> QueryArgs("show me latest alerts with detailed timestamps",
                                                   "3h", 3)]]]

----------------------------------------------------------------------------
(* Reading a response *)

Line(kind, label, payload) == [kind |-> kind, label |-> label, payload |-> payload]

\* result["result"]["content"][0]["text"]
TextOf(result) ==
    LET r == result.result IN
    IF "content" \notin DOMAIN r
    THEN [exc |-> KeyErrorExc("'content'"), text |-> <<>>]
    ELSE IF Len(r.content) = 0
    THEN [exc |-> IndexErrorExc, text |-> <<>>]
    ELSE IF "text" \notin DOMAIN r.content[1]
    THEN [exc |-> KeyErrorExc("'text'"), text |-> <<>>]
    ELSE [exc |-> NoExc, text |-> r.content[1].text]

\* fault variant: the error field is not read
ErrorOf_AlwaysUnknown(result) == "Unknown error"

\* result.get("error", "Unknown error")
ErrorOf(result) == IF "error" \in DOMAIN result THEN result.error ELSE "Unknown error"

\* the exception raised inside call_tool's try block, NoExc if none
CallToolRaised(resp) ==
    IF resp.kind = "fault" THEN resp.exc
    ELSE IF RaisesForStatus(resp.status) THEN HTTPErrorExc(resp.status)
    ELSE IF ~resp.isJson THEN JSONDecodeErrorExc
    ELSE NoExc

\* call_tool(tool_name, arguments) when the server answers resp
CallTool(tool_name, arguments, resp) ==
    LET e == CallToolRaised(resp)
        caught == e # NoExc /\ CallToolCatches(e)
    IN [request |-> [verb |-> "POST", url |-> base_url \o "/jsonrpc",
                     json |-> Payload(tool_name, arguments)],
        lines |-> IF caught THEN << Line("error", "Error calling tool", e.msg) >> ELSE <<>>,
        exc |-> IF caught THEN NoExc ELSE e,
        ret |-> IF e = NoExc THEN resp.body ELSE [error |-> e.msg]]

\* fault variant: the else is missing, the error line is always printed
DemoReport_NoElse(result, style) ==
    [lines |-> (IF "result" \in DOMAIN result /\ TextOf(result).exc = NoExc
                THEN << Line("response", "Response:", TextOf(result).text) >>
                ELSE <<>>)
               \o << Line("error", "Error:", ErrorOf(result)) >>,
     exc |-> NoExc]

\* the if/else after each call_tool of the demo
DemoReport(result, style) ==
    IF "result" \in DOMAIN result
    THEN LET x == TextOf(result) IN
         IF style = "remediation"
         THEN [lines |-> << Line("info", "Remediation Script:", "") >>
                         \o (IF x.exc = NoExc THEN << Line("response", "", x.text) >> ELSE <<>>),
               exc |-> x.exc]
         ELSE IF x.exc # NoExc
         THEN [lines |-> <<>>, exc |-> x.exc]
         ELSE [lines |-> << Line("response", "Response:",
                                 IF style = "intent" THEN DemoTruncate(x.text) ELSE x.text) >>,
               exc |-> NoExc]
    ELSE [lines |-> << Line("error", "Error:", ErrorOf(result)) >>, exc |-> NoExc]

\* one call site of the demo: heading, call_tool, report
DemoCall(site, resp) ==
    LET c == CallTool(site.tool, site.args, resp)
        r == IF c.exc = NoExc THEN DemoReport(c.ret, site.style)
             ELSE [lines |-> <<>>, exc |-> c.exc]
    IN [request |-> c.request,
        lines |-> << Line("info", "Query:", "") >> \o c.lines \o r.lines,
        exc |-> r.exc]

\* test_chatbot: the body of the try block
ChatbotTry(resp) ==
    IF resp.kind = "fault" THEN [lines |-> <<>>, exc |-> resp.exc]
    ELSE IF resp.status = 200
    THEN IF ~resp.isJson THEN [lines |-> <<>>, exc |-> JSONDecodeErrorExc]
         ELSE IF "result" \in DOMAIN resp.body
         THEN LET x == TextOf(resp.body) IN
              [lines |-> << Line("info", "Chatbot query test passed!", "") >>
                         \o (IF x.exc = NoExc
                             THEN << Line("response", "Response:", ChatbotPreview(x.text)) >>
                             ELSE <<>>),
               exc |-> x.exc]
         ELSE [lines |-> << Line("error", "Chatbot query failed:", ErrorOf(resp.body)) >>,
               exc |-> NoExc]
    ELSE [lines |-> << Line("error", "HTTP error:", ToString(resp.status)) >>, exc |-> NoExc]

\* test_chatbot()
ChatbotRun(resp) ==
    LET t == ChatbotTry(resp) IN
    IF t.exc # NoExc /\ ChatbotCatches(t.exc)
    THEN [lines |-> t.lines \o << Line("error", "Connection error:", t.exc.msg),
                                  Line("info", "Make sure the MCP server is running", "") >>,
          exc |-> NoExc]
    ELSE t

\* fault variant: the result depends on the timestamp-field check
SuccessReturn_IfFound(found) == found

\* test_enhanced_timestamps: return True, after the timestamp-field check
SuccessReturn(found) == TRUE

\* test_enhanced_timestamps: the body of the try block
TimestampTry(resp) ==
    LET sending == << Line("info", "Sending request to tools server...", "") >> IN
    IF resp.kind = "fault" THEN [lines |-> sending, exc |-> resp.exc, ret |-> FALSE]
    ELSE IF resp.status = 200
    THEN IF ~resp.isJson THEN [lines |-> sending, exc |-> JSONDecodeErrorExc, ret |-> FALSE]
         ELSE IF "result" \in DOMAIN resp.body
         THEN LET x == TextOf(resp.body)
                  ok == << Line("info", "Enhanced timestamp query successful!", "") >>
              IN IF x.exc # NoExc
                 THEN [lines |-> sending \o ok, exc |-> x.exc, ret |-> FALSE]
                 ELSE [lines |-> sending \o ok
                                 \o << Line("response", "Response preview:",
                                            TimestampPreview(x.text)),
                                       IF HasTimestampFields(x.text)
                                       THEN Line("info", "Enhanced timestamp fields are being used!", "")
                                       ELSE Line("info", "Enhanced timestamp fields not found in response", "") >>,
                       exc |-> NoExc,
                       ret |-> SuccessReturn(HasTimestampFields(x.text))]
         ELSE [lines |-> sending
                         \o << Line("error", "Enhanced timestamp query failed:",
                                    ErrorOf(resp.body)) >>,
               exc |-> NoExc, ret |-> FALSE]
    ELSE [lines |-> sending \o << Line("error", "HTTP error:", ToString(resp.status)) >>,
          exc |-> NoExc, ret |-> FALSE]

\* test_enhanced_timestamps()
TimestampRun(resp) ==
    LET t == TimestampTry(resp) IN
    IF t.exc # NoExc /\ TimestampCatches(t.exc)
    THEN [lines |-> t.lines \o << Line("error", "Connection error:", t.exc.msg),
                                  Line("info", "Make sure the tools server is accessible", "") >>,
          exc |-> NoExc, ret |-> FALSE]
    ELSE t

----------------------------------------------------------------------------
(* The scripts *)

Scripts == {"demo", "test_chatbot", "test_enhanced_timestamps"}

Init ==
    /\ script \in Scripts
    /\ unreachable \in BOOLEAN
    /\ pc = "start"
    /\ done = 0
    /\ sent = <<>>
    /\ health = NoResponse
    /\ last = NoResponse
    /\ lines = <<>>
    /\ exc = NoExc
    /\ retval = "None"

\* run_full_demo: the banner and input()
PressEnter ==
    /\ script = "demo" /\ pc = "start"
    /\ pc' = "probe"
    /\ lines' = << Line("info", "Starting KAgent Chatbot Agent Demo", ""),
                   Line("info", "Press Enter to continue...", "") >>
    /\ UNCHANGED <<script, unreachable, done, sent, health, last, exc, retval>>

\* run_full_demo: the connectivity test
HealthProbe ==
    /\ script = "demo" /\ pc = "probe"
    /\ \E resp \in HealthOutcomes :
        /\ health' = resp
        /\ sent' = Append(sent, HealthRequest)
        /\ IF resp.kind = "fault"
           THEN IF HealthCatches(resp.exc)
                THEN /\ lines' = << Line("info", "Cannot connect to MCP server. Is it running?", "") >>
                     /\ pc' = "done"
                     /\ exc' = exc
                ELSE /\ lines' = <<>>
                     /\ pc' = "crashed"
                     /\ exc' = resp.exc
           ELSE /\ exc' = exc
                /\ IF HealthOk(resp.status)
                   THEN /\ lines' = << Line("info", "Connected to MCP server", "") >>
                        /\ pc' = "calls"
                   ELSE /\ lines' = << Line("info", "Failed to connect to MCP server", "") >>
                        /\ pc' = "done"
    /\ UNCHANGED <<script, unreachable, done, last, retval>>

\* the step shared by the three demo_* methods: call site number done + 1
DemoStep(style) ==
    /\ script = "demo" /\ pc = "calls"
    /\ done < Len(CallSites)
    /\ CallSites[done + 1].style = style
    /\ \E resp \in Outcomes :
        LET r == DemoCall(CallSites[done + 1], resp) IN
        /\ last' = resp
        /\ sent' = Append(sent, r.request)
        /\ lines' = r.lines
        /\ exc' = r.exc
        /\ pc' = IF r.exc = NoExc THEN "calls" ELSE "crashed"
        /\ done' = IF r.exc = NoExc THEN done + 1 ELSE done
    /\ UNCHANGED <<script, unreachable, health, retval>>

demo_chatbot_query == DemoStep("query")
demo_remediation == DemoStep("remediation")
demo_intent_recognition == DemoStep("intent")

\* run_full_demo: the closing lines
DemoCompleted ==
    /\ script = "demo" /\ pc = "calls"
    /\ done = Len(CallSites)
    /\ pc' = "done"
    /\ lines' = << Line("info", "Demo completed!", ""),
                   Line("info", "Key Features Demonstrated:", "") >>
    /\ UNCHANGED <<script, unreachable, done, sent, health, last, exc, retval>>

test_chatbot ==
    /\ script = "test_chatbot" /\ pc = "start"
    /\ \E resp \in Outcomes :
        LET r == ChatbotRun(resp) IN
        /\ last' = resp
        /\ sent' = Append(sent, ChatbotRequest)
        /\ lines' = << Line("info", "Testing KAgent Chatbot Agent...", "") >> \o r.lines
        /\ exc' = r.exc
        /\ pc' = IF r.exc = NoExc THEN "done" ELSE "crashed"
    /\ UNCHANGED <<script, unreachable, done, health, retval>>

test_enhanced_timestamps ==
    /\ script = "test_enhanced_timestamps" /\ pc = "start"
    /\ \E resp \in Outcomes :
        LET r == TimestampRun(resp) IN
        /\ last' = resp
        /\ sent' = Append(sent, TimestampRequest)
        /\ lines' = << Line("info", "Starting Enhanced Timestamp Tests...", ""),
                       Line("info", "Testing Enhanced Timestamp Functionality...", "") >>
                    \o r.lines
        /\ exc' = r.exc
        /\ pc' = IF r.exc = NoExc THEN "returned" ELSE "crashed"
        /\ retval' = IF r.exc # NoExc THEN retval ELSE IF r.ret THEN "True" ELSE "False"
    /\ UNCHANGED <<script, unreachable, done, health>>

\* test_enhanced_timestamps.py, __main__: if success1
TimestampMain ==
    /\ script = "test_enhanced_timestamps" /\ pc = "returned"
    /\ pc' = "done"
    /\ lines' = IF retval = "True"
                THEN << Line("info", "Enhanced timestamp functionality is working!", "") >>
                ELSE << Line("info", "Some tests failed. Check the system configuration.", "") >>
    /\ UNCHANGED <<script, unreachable, done, sent, health, last, exc, retval>>

Next ==
    \/ PressEnter
    \/ HealthProbe
    \/ demo_chatbot_query
    \/ demo_remediation
    \/ demo_intent_recognition
    \/ DemoCompleted
    \/ test_chatbot
    \/ test_enhanced_timestamps
    \/ TimestampMain

Spec == Init /\ [][Next]_vars

----------------------------------------------------------------------------
(* Vocabulary of the properties *)

Posts == SelectSeq(sent, LAMBDA r : r.verb = "POST")

Count(kind) == Cardinality({ i \in 1..Len(lines) : lines[i].kind = kind })

HasLabel(label) == \E i \in 1..Len(lines) : lines[i].label = label

\* the labels of the error lines of the most recent step, in order
ErrorLabels ==
    LET err == SelectSeq(lines, LAMBDA l : l.kind = "error")
    IN [i \in 1..Len(err) |-> err[i].label]

\* the most recent step issued a POST /jsonrpc and `last` is its outcome
AfterPost ==
    /\ last.kind # "none"
    /\ \/ script = "demo" /\ pc \in {"calls", "crashed"}
       \/ script = "test_chatbot" /\ pc \in {"done", "crashed"}
       \/ script = "test_enhanced_timestamps" /\ pc \in {"returned", "crashed"}

\* a JSON object with an indexable result.content[0].text
WellFormed(body) ==
    /\ "result" \in DOMAIN body
    /\ "content" \in DOMAIN body.result
    /\ Len(body.result.content) > 0
    /\ "text" \in DOMAIN body.result.content[1]

\* the POST was answered with status 200 and a JSON object
Ok200 == last.kind = "http" /\ last.status = 200 /\ last.isJson

\* the server answered a result whose nested structure is missing
MalformedResult ==
    last.kind = "http" /\ last.isJson /\ "result" \in DOMAIN last.body /\ ~WellFormed(last.body)

\* the demo's eleven tool calls, in program order
DemoOrder ==
    << "chatbot_query", "chatbot_query", "chatbot_query", "get_remediation",
       "chatbot_query", "chatbot_query", "chatbot_query", "chatbot_query",
       "chatbot_query", "chatbot_query", "chatbot_query" >>

HealthPassed == health.kind = "http" /\ health.status = 200

----------------------------------------------------------------------------
(* C1 *)

\* C1: in the demo, when GET /health returned a status other than 200 or raised
\* a transport fault, no tools/call request is sent and "Demo completed" is not
\* printed; a tools/call request is only ever sent after a 200 from /health.
C1_HealthGate ==
    script = "demo" =>
        /\ (health.kind # "none" /\ ~HealthPassed) =>
              /\ Len(Posts) = 0
              /\ ~HasLabel("Demo completed!")
              /\ pc # "calls"
        /\ Len(Posts) > 0 => HealthPassed
        /\ HasLabel("Demo completed!") => HealthPassed

C1_Witness ==
    /\ script = "demo" /\ pc = "done"
    /\ health.kind = "http" /\ health.status = 204
    /\ Len(sent) = 1

----------------------------------------------------------------------------
(* C2 *)

\* C2: in the demo, after a successful health probe, a tools/call that fails by
\* a transport fault, a non-2xx status or an error field ends that step only:
\* the script goes on, the tools/call requests are sent in the fixed order
\* 3 x chatbot_query, get_remediation, 7 x chatbot_query, and a run that ends
\* normally has sent all eleven and printed "Demo completed".
C2_StepFailureIsLocal ==
    script = "demo" =>
        /\ (AfterPost /\ ~MalformedResult) => (pc = "calls" /\ exc = NoExc)
        /\ Len(Posts) <= Len(DemoOrder)
        /\ \A i \in 1..Len(Posts) : Posts[i].json.params.name = DemoOrder[i]
        /\ pc = "calls" => Len(Posts) = done
        /\ (pc = "done" /\ HealthPassed) =>
              /\ Len(Posts) = 11
              /\ HasLabel("Demo completed!")

C2_Witness ==
    /\ script = "demo" /\ pc = "done"
    /\ Len(Posts) = 11
    /\ last.kind = "http" /\ last.status = 500
    /\ HasLabel("Demo completed!")

----------------------------------------------------------------------------
(* C3 *)

\* what a truncating call site is claimed to print for text t and threshold n
Truncated(t, n) == IF Len(t) > n THEN SubSeq(t, 1, n) \o Ellipsis ELSE t

\* C3: at every truncating call site (demo_intent_recognition and test_chatbot
\* at 200, test_enhanced_timestamps at 500) a text longer than the threshold is
\* printed as its first threshold characters and an ellipsis, a text of at most
\* the threshold unmodified.
C3_Truncation ==
    \A i \in 1..Len(lines) :
        (AfterPost /\ lines[i].kind = "response"
            /\ (script = "demo" => done > 4)) =>
            lines[i].payload =
                Truncated(last.body.result.content[1].text,
                          IF script = "test_enhanced_timestamps" THEN 500 ELSE 200)

----------------------------------------------------------------------------
(* C4 *)

\* C4 as stated: in each script a 200 response whose result lacks the nested
\* structure makes the access fault leave the script, nothing being printed
\* for it.
C4_Original ==
    (AfterPost /\ Ok200 /\ MalformedResult) =>
        /\ pc = "crashed"
        /\ exc.type \in {"KeyError", "IndexError"}
        /\ Count("error") = 0

\* C4 amended: only the demo lets the access fault leave the script; the two
\* test scripts catch it in their except Exception clause, print it as a
\* "Connection error" line and end normally (test_enhanced_timestamps
\* returning False).
C4_MalformedResult ==
    (AfterPost /\ Ok200 /\ MalformedResult) =>
        IF script = "demo"
        THEN /\ pc = "crashed"
             /\ exc.type \in {"KeyError", "IndexError"}
             /\ Count("error") = 0 /\ Count("response") = 0
        ELSE /\ pc # "crashed" /\ exc = NoExc
             /\ ErrorLabels = << "Connection error:" >>
             /\ Count("response") = 0
             /\ script = "test_enhanced_timestamps" => retval = "False"

C4_Witness ==
    /\ script = "test_chatbot" /\ pc = "done"
    /\ Ok200 /\ MalformedResult
    /\ HasLabel("Connection error:")

----------------------------------------------------------------------------
(* C5 *)

\* C5: in each script, a 200 response whose JSON body has no result field is
\* reported by one line carrying the error value verbatim, or "Unknown error"
\* when there is no error field either; no exception leaves the script and the
\* request is not sent again.
C5_ErrorField ==
    (AfterPost /\ Ok200 /\ "result" \notin DOMAIN last.body) =>
        /\ pc # "crashed" /\ exc = NoExc
        /\ Count("error") = 1 /\ Count("response") = 0
        /\ \A i \in 1..Len(lines) :
              lines[i].kind = "error" =>
                  lines[i].payload =
                      (IF "error" \in DOMAIN last.body THEN last.body.error
                       ELSE "Unknown error")
        /\ Len(Posts) = (IF script = "demo" THEN done ELSE 1)

C5_Witness ==
    /\ script = "demo" /\ AfterPost /\ Ok200
    /\ "result" \notin DOMAIN last.body
    /\ "error" \in DOMAIN last.body /\ last.body.error = "boom"
    /\ done = 4

----------------------------------------------------------------------------
(* C6 *)

\* C6: when the server is unreachable, no exception leaves any script; the two
\* test scripts print a "Connection error" line (test_enhanced_timestamps
\* returns False), the demo prints "Cannot connect to MCP server" after the
\* health probe and returns without a tools/call.
C6_Unreachable ==
    unreachable =>
        /\ pc # "crashed" /\ exc = NoExc
        /\ (script = "test_chatbot" /\ pc = "done") => HasLabel("Connection error:")
        /\ (script = "test_enhanced_timestamps" /\ pc = "returned") =>
              (HasLabel("Connection error:") /\ retval = "False")
        /\ (script = "test_enhanced_timestamps" /\ pc = "done") => retval = "False"
        /\ script = "demo" =>
              /\ pc \in {"start", "probe", "done"}
              /\ pc = "done" =>
                    /\ HasLabel("Cannot connect to MCP server. Is it running?")
                    /\ Len(Posts) = 0

C6_Witness ==
    /\ unreachable /\ script = "demo" /\ pc = "done"
    /\ health.kind = "fault" /\ health.exc.type = "ConnectTimeout"

----------------------------------------------------------------------------
(* C7 *)

\* C7 as stated: for every outcome of a tools/call request at most one line
\* reporting it (a response line or an error line) is printed.
C7_Original == AfterPost => Count("response") + Count("error") <= 1

\* C7 amended: a request has at most one response line and never a response
\* line together with an error line; the test scripts print at most one error
\* line, the demo prints two (call_tool's "Error calling tool" and the
\* caller's "Error:", with the same message) exactly when call_tool caught an
\* exception, and at most one otherwise.
C7_OneResponsePerRequest ==
    AfterPost =>
        /\ Count("response") <= 1
        /\ Count("response") = 1 => Count("error") = 0
        /\ script # "demo" => Count("error") <= 1
        /\ script = "demo" =>
              IF last.kind = "fault" \/ last.status >= 400 \/ ~last.isJson
              THEN /\ ErrorLabels = << "Error calling tool", "Error:" >>
                   /\ \A i, j \in 1..Len(lines) :
                         (lines[i].kind = "error" /\ lines[j].kind = "error") =>
                             lines[i].payload = lines[j].payload
              ELSE Count("error") <= 1

C7_Witness ==
    /\ script = "demo" /\ AfterPost
    /\ last.kind = "fault"
    /\ Count("error") = 2

----------------------------------------------------------------------------
(* C8 *)

\* C8: every call_tool(T, A) makes exactly one POST to <base_url>/jsonrpc with
\* the body {jsonrpc: "2.0", id: 1, method: "tools/call",
\* params: {name: T, arguments: A}}, whatever the earlier calls and their
\* outcomes were.
C8_Envelope ==
    script = "demo" =>
        /\ Len(Posts) = (IF pc = "crashed" /\ last.kind # "none" THEN done + 1 ELSE done)
        /\ \A i \in 1..Len(Posts) :
              /\ Posts[i].url = "http://localhost:8084/jsonrpc"
              /\ Posts[i].json =
                    [jsonrpc |-> "2.0", id |-> 1, method |-> "tools/call",
                     params |-> [name |-> CallSites[i].tool,
                                 arguments |-> CallSites[i].args]]

C8_Witness ==
    /\ script = "demo" /\ pc = "calls" /\ done = 5
    /\ last.kind = "fault"
    /\ Posts[4].json.params.name = "get_remediation"
    /\ Posts[5].json.params.arguments.query = "Show me issues in the last 3 hours"

----------------------------------------------------------------------------
(* C9 *)

\* the error lines a script prints for a connection failure
FaultLabels ==
    IF script = "demo" THEN << "Error calling tool", "Error:" >>
    ELSE << "Connection error:" >>

\* C9 as stated: in every script a non-success status of the POST has no
\* branch of its own and is reported like a connection failure.
C9_Original ==
    (AfterPost /\ last.kind = "http" /\ last.status \notin 200..299) =>
        ErrorLabels = FaultLabels

\* C9 amended: in the demo's call_tool a 4xx or 5xx status is raised by
\* raise_for_status and reported like a connection failure (call_tool's line
\* and the caller's "Error:" line, the script going on); in test_chatbot and
\* test_enhanced_timestamps every status other than 200 takes a status-code
\* branch of its own that prints "HTTP error: <status>", and the except
\* clause is not entered.
C9_StatusHandling ==
    (AfterPost /\ last.kind = "http") =>
        /\ (script = "demo" /\ last.status >= 400) =>
              /\ ErrorLabels = FaultLabels
              /\ Count("response") = 0
              /\ pc = "calls"
        /\ (script # "demo" /\ last.status # 200) =>
              /\ ErrorLabels = << "HTTP error:" >>
              /\ \A i \in 1..Len(lines) :
                    lines[i].kind = "error" => lines[i].payload = ToString(last.status)
              /\ Count("response") = 0
              /\ pc # "crashed"
              /\ script = "test_enhanced_timestamps" => retval = "False"

C9_Witness ==
    /\ script = "test_chatbot" /\ pc = "done"
    /\ last.kind = "http" /\ last.status = 404
    /\ HasLabel("HTTP error:")

----------------------------------------------------------------------------
(* C10 *)

\* C10: test_enhanced_timestamps returns True exactly when the POST returned
\* 200 with a JSON body holding result.content[0].text, and False otherwise,
\* whether or not the text holds a timestamp field; the closing "working!"
\* line is printed exactly when it returned True.
C10_ReturnValue ==
    script = "test_enhanced_timestamps" =>
        /\ pc # "crashed"
        /\ pc = "start" => retval = "None"
        /\ pc \in {"returned", "done"} =>
              /\ retval \in {"True", "False"}
              /\ retval = "True" <=> (Ok200 /\ WellFormed(last.body))
        /\ pc = "done" =>
              /\ HasLabel("Enhanced timestamp functionality is working!") <=> retval = "True"
              /\ HasLabel("Some tests failed. Check the system configuration.")
                    <=> retval = "False"

C10_Witness ==
    /\ script = "test_enhanced_timestamps" /\ pc = "done"
    /\ Ok200 /\ WellFormed(last.body)
    /\ ~HasTimestampFields(last.body.result.content[1].text)
    /\ Len(last.body.result.content[1].text) > 500
    /\ HasLabel("Enhanced timestamp functionality is working!")

====
